---- MODULE Spec2Model ----
(***************************************************************************)
(* Model of app.py: the approval-gated report generator.                   *)
(*                                                                         *)
(* Part 1 models the Streamlit script as run by browser sessions against   *)
(* the shared Supabase tables `users` and `usage_counters`.  Reruns of the *)
(* script that only read (the sidebar, the admin table, the preview) are   *)
(* left out; the handlers that write (login, logout, bootstrap, approve,   *)
(* revoke) are one action each, and the generate-report rerun is split at  *)
(* its remote calls, because two sessions interleave exactly there.        *)
(*   Spec      two sessions, few reports per identity                      *)
(*   SpecSolo  one session, enough reports to pass the daily limit         *)
(* Parts 2 and 3 model the two computations of the input form, each as a   *)
(* specification that draws the inputs and applies the function once:      *)
(*   SpecSim     build_5y_sim and the three estimators                     *)
(*   SpecLookup  compute_income_rate_from_excel                            *)
(*                                                                         *)
(* E-mails are kept in canonical form (app.py strips and lower-cases the   *)
(* text input before any use), and the model covers one calendar day of    *)
(* one month, so that period_keys() returns the same pair throughout.      *)
(***************************************************************************)
EXTENDS Integers, Sequences, FiniteSets, TLC

DAILY_LIMIT == 5
MONTHLY_LIMIT == 100

\* Exploration bounds: an identity starts no further generate-report rerun
\* once this many documents were delivered to it or charged to it
\* (MaxGens under SpecSolo, MaxSharedGens under Spec).
MaxGens == 6
MaxSharedGens == 1

ADMIN_EMAIL == "admin"
Emails == {ADMIN_EMAIL, "user"}
Sessions == {"s1", "s2"}
SoloSessions == {"s1"}

NoEmail == "none"
NoUser == [exists |-> FALSE, approved |-> FALSE, is_admin |-> FALSE]
UserRow(a, ad) == [exists |-> TRUE, approved |-> a, is_admin |-> ad]

VARIABLES
    users,          \* table users: email -> row (or NoUser)
    usage_counters, \* table usage_counters: period_type -> email -> count
    session_email,  \* st.session_state["email"] of each session
    pc,             \* position of each session's generate-report rerun
    is_admin,       \* the rerun's local is_admin (from the row it loaded)
    current,        \* local `current` of usage_inc's inc()
    usage_err,      \* the rerun's usage_inc raised (the handler's except branch ran)
    streak,         \* history: the last n documents all went to one e-mail,
                    \*   `charged` of them from reruns whose usage_inc ran to its end
    event,          \* history: what the latest step showed and swallowed
    sim_args,       \* the preview's inputs: sales, income_rate, is_regional
    sim_df,         \* the preview's table: build_5y_sim's rows, <<>> before it ran
    excel,          \* the lookup's inputs: uploaded_file and industry_code
    ir              \* the lookup's IncomeRateResult

appvars == <<users, usage_counters, session_email, pc, is_admin, current,
             usage_err, streak, event>>

calcvars == <<sim_args, sim_df, excel, ir>>

vars == <<appvars, calcvars>>

PeriodTypes == {"daily", "monthly"}

MidRunPcs == {"quota", "call", "inc_daily_read", "inc_daily_write",
              "inc_monthly_read", "inc_monthly_write", "pdf"}
\* How a generate-report rerun ends: the st.stop() it ran into, or the
\* download button.
Outcomes == {"stop_nouser", "stop_gate", "stop_quota", "stop_openai",
             "stop_pdf", "download"}
\* The calls of a generate-report rerun that can raise: the two usage_get of
\* usage_can (inside safe_execute), gen_consulting_text, usage_inc, build_pdf
\* and the insert of audit.
Raisers == {"usage_get_daily", "usage_get_monthly", "openai", "usage_inc",
            "build_pdf", "audit"}

MidRun(s) == pc[s] # "idle"

-----------------------------------------------------------------------------
(* Tables *)

\* upsert_user: the whole row is written, whatever it held before.
upsert_user(tbl, email, approved, admin) ==
    [tbl EXCEPT ![email] = UserRow(approved, admin)]

\* get_user: the row, or None.
get_user(email) == users[email]

\* set_approval: UPDATE ... WHERE email = ..., so a missing row stays missing.
set_approval(tbl, email, approved) ==
    IF tbl[email].exists
    THEN [tbl EXCEPT ![email].approved = approved]
    ELSE tbl

\* usage_get: the stored count, 0 when there is no row.
usage_get(email, period_type) == usage_counters[period_type][email]

\* safe_execute(fn, default): fn's value, or the default when fn raised.
safe_execute(raised, value, default) == IF raised THEN default ELSE value

\* Mutant of usage_ok: <= for <.
usage_ok_inclusive(d, m) == (d <= DAILY_LIMIT) /\ (m <= MONTHLY_LIMIT)

\* usage_can's verdict on the two counts it obtained.
usage_ok(d, m) == (d < DAILY_LIMIT) /\ (m < MONTHLY_LIMIT)

\* audit: the insert is tried and an exception is swallowed, so that all an
\* insert that raised leaves behind is its mention among the step's raisers.
audit(inserted) == IF inserted THEN {} ELSE {"audit"}

-----------------------------------------------------------------------------
(* Init *)

\* An IncomeRateResult; None and Some(v) are its Optional fields.
None == [some |-> FALSE]
Some(v) == [some |-> TRUE, v |-> v]

IncomeRateResult(industry_code, biz_code, q_value, income_rate, notes) ==
    [industry_code |-> industry_code, biz_code |-> biz_code,
     q_value |-> q_value, income_rate |-> income_rate, notes |-> notes]

\* A file pd.read_excel raises on.
Unreadable == [readable |-> FALSE, ncols |-> 0, rows |-> <<>>]

\* ir before the lookup ran.
NoResult == IncomeRateResult(<<>>, None, None, None, "none")

\* No file is uploaded; the text input holds its default, "22232".
NoLookup ==
    /\ excel = [uploaded_file |-> Unreadable,
                industry_code |-> <<"2", "2", "2", "3", "2">>]
    /\ ir = NoResult

\* A step of a generate-report rerun of session s: `what` is "run" while the
\* rerun goes on and its outcome when it ends, `raised` the calls that raised
\* in the step, and `usage`, when build_pdf was reached, what became of
\* usage_inc in that rerun ("admin": skipped, "charged", "failed").
Event(s, what, raised, usage) ==
    [session |-> s, what |-> what, raised |-> raised, usage |-> usage]
\* Any other step.
NoEvent == Event("none", "none", {}, "none")

\* The widgets' defaults: sales 900,000,000, income_rate 12.0 (held in
\* thousandths of a percent), is_regional ticked.
DefaultSimArgs ==
    [sales |-> 900000000, profit_rate |-> 12000, is_regional |-> TRUE]

\* The preview is left at rest.
NoPreview ==
    /\ sim_args = DefaultSimArgs
    /\ sim_df = <<>>

InitApp ==
    /\ users = [e \in Emails |-> NoUser]
    /\ usage_counters = [p \in PeriodTypes |-> [e \in Emails |-> 0]]
    /\ session_email = [s \in Sessions |-> NoEmail]
    /\ pc = [s \in Sessions |-> "idle"]
    /\ is_admin = [s \in Sessions |-> FALSE]
    /\ current = [s \in Sessions |-> 0]
    /\ usage_err = [s \in Sessions |-> FALSE]
    /\ streak = [email |-> NoEmail, n |-> 0, charged |-> 0]
    /\ event = NoEvent

Init == InitApp /\ NoPreview /\ NoLookup

\* The rerun of session s ends: st.stop(), or the end of the script.
EndRun(s) ==
    /\ pc' = [pc EXCEPT ![s] = "idle"]
    /\ is_admin' = [is_admin EXCEPT ![s] = FALSE]
    /\ current' = [current EXCEPT ![s] = 0]
    /\ usage_err' = [usage_err EXCEPT ![s] = FALSE]

RunVars == <<pc, is_admin, current, usage_err, streak>>

-----------------------------------------------------------------------------
(* Sidebar and admin panel: one action per button handler *)

\* "로그인": session_state is set, then the row is upserted with approved and
\* is_admin both equal to (email = ADMIN_EMAIL).  An exception of the upsert
\* (db_ok false) ends the rerun with the session already logged in.
Login(s, e, db_ok) ==
    /\ ~MidRun(s)
    /\ session_email' = [session_email EXCEPT ![s] = e]
    /\ users' = IF db_ok
                THEN upsert_user(users, e, e = ADMIN_EMAIL, e = ADMIN_EMAIL)
                ELSE users
    /\ event' = NoEvent
    /\ UNCHANGED <<usage_counters, RunVars>>

\* "로그아웃"
Logout(s) ==
    /\ ~MidRun(s)
    /\ session_email' = [session_email EXCEPT ![s] = NoEmail]
    /\ event' = NoEvent
    /\ UNCHANGED <<users, usage_counters, RunVars>>

\* "관리자 계정 생성/갱신": needs a login and the bootstrap key.
Bootstrap(s, key_ok, db_ok) ==
    /\ ~MidRun(s)
    /\ users' = IF session_email[s] # NoEmail /\ key_ok /\ db_ok
                THEN upsert_user(users, session_email[s], TRUE, TRUE)
                ELSE users
    /\ event' = NoEvent
    /\ UNCHANGED <<usage_counters, session_email, RunVars>>

\* The admin panel is rendered only when the row loaded for the session's
\* e-mail has is_admin.
AdminPanel(s) ==
    /\ ~MidRun(s)
    /\ session_email[s] # NoEmail
    /\ get_user(session_email[s]).exists
    /\ get_user(session_email[s]).is_admin

\* "승인": upsert_user(target, approved=True, is_admin=(target == ADMIN_EMAIL)),
\* then set_approval(target, True).
Approve(s, target, db_ok) ==
    /\ AdminPanel(s)
    /\ users' = IF db_ok
                THEN set_approval(
                       upsert_user(users, target, TRUE, target = ADMIN_EMAIL),
                       target, TRUE)
                ELSE users
    /\ event' = NoEvent
    /\ UNCHANGED <<usage_counters, session_email, RunVars>>

\* "승인 해제": set_approval(target, False).
Revoke(s, target, db_ok) ==
    /\ AdminPanel(s)
    /\ users' = IF db_ok THEN set_approval(users, target, FALSE) ELSE users
    /\ event' = NoEvent
    /\ UNCHANGED <<usage_counters, session_email, RunVars>>

-----------------------------------------------------------------------------
(* The generate-report rerun, split at its remote calls *)

Identity(s) == session_email[s]

\* Exploration bound: a rerun gets past the gates only while fewer than cap
\* documents in a row went to its e-mail and both its counters are under cap.
UnderCap(email, cap) ==
    /\ streak.email = email => streak.n < cap
    /\ \A p \in PeriodTypes : usage_get(email, p) < cap

\* Mutant of StartRun: the approved gate is missing.
StartRun_no_gate(s, cap) ==
    /\ ~MidRun(s)
    /\ Identity(s) # NoEmail
    /\ LET user == get_user(Identity(s))
       IN  IF ~user.exists
           THEN /\ event' = Event(s, "stop_nouser", {}, "none")
                /\ UNCHANGED <<pc, is_admin>>
           ELSE /\ UnderCap(Identity(s), cap)
                /\ pc' = [pc EXCEPT ![s] = "quota"]
                /\ is_admin' = [is_admin EXCEPT ![s] = user.is_admin]
                /\ event' = Event(s, "run", {}, "none")
    /\ UNCHANGED <<users, usage_counters, session_email, current, usage_err, streak>>

\* The click on "PDF 생성" reruns the script from the top: the login gate,
\* get_user, the "no user" stop and the approved gate run before anything
\* else of the report section.
StartRun(s, cap) ==
    /\ ~MidRun(s)
    /\ Identity(s) # NoEmail
    /\ LET user == get_user(Identity(s))
       IN  IF ~user.exists
           THEN /\ event' = Event(s, "stop_nouser", {}, "none")
                /\ UNCHANGED <<pc, is_admin>>
           ELSE IF (~user.is_admin) /\ (~user.approved)
           THEN /\ event' = Event(s, "stop_gate", {}, "none")
                /\ UNCHANGED <<pc, is_admin>>
           ELSE /\ UnderCap(Identity(s), cap)
                /\ pc' = [pc EXCEPT ![s] = "quota"]
                /\ is_admin' = [is_admin EXCEPT ![s] = user.is_admin]
                /\ event' = Event(s, "run", {}, "none")
    /\ UNCHANGED <<users, usage_counters, session_email, current, usage_err, streak>>

\* Mutant of QuotaCheck: the gate stops an admin too.
QuotaCheck_admin_limited(s, d_raised, m_raised) ==
    /\ pc[s] = "quota"
    /\ LET d == safe_execute(d_raised, usage_get(Identity(s), "daily"), 0)
           m == safe_execute(m_raised, usage_get(Identity(s), "monthly"), 0)
           ok_use == usage_ok(d, m)
           raised == (IF d_raised THEN {"usage_get_daily"} ELSE {})
                     \cup (IF m_raised THEN {"usage_get_monthly"} ELSE {})
       IN  IF ~ok_use
           THEN /\ EndRun(s)
                /\ event' = Event(s, "stop_quota", raised, "none")
           ELSE /\ pc' = [pc EXCEPT ![s] = "call"]
                /\ event' = Event(s, "run", raised, "none")
                /\ UNCHANGED <<is_admin, current, usage_err>>
    /\ UNCHANGED <<users, usage_counters, session_email, streak>>

\* Mutant of QuotaCheck: a read that raised stops a non-admin.
QuotaCheck_fails_closed(s, d_raised, m_raised) ==
    /\ pc[s] = "quota"
    /\ LET d == safe_execute(d_raised, usage_get(Identity(s), "daily"), 0)
           m == safe_execute(m_raised, usage_get(Identity(s), "monthly"), 0)
           ok_use == usage_ok(d, m) /\ ~d_raised /\ ~m_raised
           raised == (IF d_raised THEN {"usage_get_daily"} ELSE {})
                     \cup (IF m_raised THEN {"usage_get_monthly"} ELSE {})
       IN  IF (~is_admin[s]) /\ (~ok_use)
           THEN /\ EndRun(s)
                /\ event' = Event(s, "stop_quota", raised, "none")
           ELSE /\ pc' = [pc EXCEPT ![s] = "call"]
                /\ event' = Event(s, "run", raised, "none")
                /\ UNCHANGED <<is_admin, current, usage_err>>
    /\ UNCHANGED <<users, usage_counters, session_email, streak>>

\* usage_can and the quota gate: each of the two reads goes through
\* safe_execute (0 when it raised); a non-admin over either limit is stopped.
QuotaCheck(s, d_raised, m_raised) ==
    /\ pc[s] = "quota"
    /\ LET d == safe_execute(d_raised, usage_get(Identity(s), "daily"), 0)
           m == safe_execute(m_raised, usage_get(Identity(s), "monthly"), 0)
           ok_use == usage_ok(d, m)
           raised == (IF d_raised THEN {"usage_get_daily"} ELSE {})
                     \cup (IF m_raised THEN {"usage_get_monthly"} ELSE {})
       IN  IF (~is_admin[s]) /\ (~ok_use)
           THEN /\ EndRun(s)
                /\ event' = Event(s, "stop_quota", raised, "none")
           ELSE /\ pc' = [pc EXCEPT ![s] = "call"]
                /\ event' = Event(s, "run", raised, "none")
                /\ UNCHANGED <<is_admin, current, usage_err>>
    /\ UNCHANGED <<users, usage_counters, session_email, streak>>

\* Mutant of NarrativeCall: usage_inc also runs when the call raised.
NarrativeCall_charges_failure(s, call_ok, inserted) ==
    /\ pc[s] = "call"
    /\ pc' = [pc EXCEPT ![s] = IF is_admin[s] THEN "pdf" ELSE "inc_daily_read"]
    /\ event' = Event(s, "run",
                      (IF call_ok THEN {} ELSE {"openai"}) \cup audit(inserted), "none")
    /\ UNCHANGED <<is_admin, current, usage_err>>
    /\ UNCHANGED <<users, usage_counters, session_email, streak>>

\* Mutant of NarrativeCall: the except branch reports and lacks st.stop().
NarrativeCall_no_stop(s, call_ok, inserted) ==
    /\ pc[s] = "call"
    /\ pc' = [pc EXCEPT ![s] = IF call_ok /\ ~is_admin[s] THEN "inc_daily_read" ELSE "pdf"]
    /\ event' = Event(s, IF call_ok THEN "run" ELSE "stop_openai",
                      (IF call_ok THEN {} ELSE {"openai"}) \cup audit(inserted), "none")
    /\ UNCHANGED <<is_admin, current, usage_err>>
    /\ UNCHANGED <<users, usage_counters, session_email, streak>>

\* gen_consulting_text inside try/except: on success audit "openai_ok" and go
\* on (to usage_inc unless is_admin); on an exception audit "openai_fail",
\* report and st.stop().
NarrativeCall(s, call_ok, inserted) ==
    /\ pc[s] = "call"
    /\ IF call_ok
       THEN /\ pc' = [pc EXCEPT ![s] = IF is_admin[s] THEN "pdf" ELSE "inc_daily_read"]
            /\ event' = Event(s, "run", audit(inserted), "none")
            /\ UNCHANGED <<is_admin, current, usage_err>>
       ELSE /\ EndRun(s)
            /\ event' = Event(s, "stop_openai", {"openai"} \cup audit(inserted), "none")
    /\ UNCHANGED <<users, usage_counters, session_email, streak>>

ReadPc(period_type) ==
    IF period_type = "daily" THEN "inc_daily_read" ELSE "inc_monthly_read"
WritePc(period_type) ==
    IF period_type = "daily" THEN "inc_daily_write" ELSE "inc_monthly_write"
\* After inc("daily", dkey) comes inc("monthly", mkey), then the PDF.
AfterInc(period_type) ==
    IF period_type = "daily" THEN "inc_monthly_read" ELSE "pdf"

\* Mutant of UsageFail: the except branch around usage_inc ends the rerun.
UsageFail_stops(s, inserted) ==
    /\ EndRun(s)
    /\ event' = Event(s, "stop_pdf", {"usage_inc"} \cup audit(inserted), "none")
    /\ UNCHANGED usage_counters

\* An exception anywhere in usage_inc leaves it; the handler audits
\* "usage_fail" and goes on to the PDF.
UsageFail(s, inserted) ==
    /\ pc' = [pc EXCEPT ![s] = "pdf"]
    /\ current' = [current EXCEPT ![s] = 0]
    /\ usage_err' = [usage_err EXCEPT ![s] = TRUE]
    /\ event' = Event(s, "run", {"usage_inc"} \cup audit(inserted), "none")
    /\ UNCHANGED usage_counters

\* inc(): current = usage_get(...)
IncRead(s, period_type, db_ok, inserted) ==
    /\ pc[s] = ReadPc(period_type)
    /\ IF db_ok
       THEN /\ current' = [current EXCEPT ![s] = usage_get(Identity(s), period_type)]
            /\ pc' = [pc EXCEPT ![s] = WritePc(period_type)]
            /\ event' = Event(s, "run", {}, "none")
            /\ UNCHANGED <<usage_counters, usage_err>>
       ELSE UsageFail(s, inserted)
    /\ UNCHANGED <<users, session_email, is_admin, streak>>

\* Mutant of IncWrite: an atomic increment of the stored count.
IncWrite_atomic(s, period_type, db_ok, inserted) ==
    /\ pc[s] = WritePc(period_type)
    /\ IF db_ok
       THEN /\ usage_counters' =
                  [usage_counters EXCEPT ![period_type][Identity(s)] = @ + 1]
            /\ current' = [current EXCEPT ![s] = 0]
            /\ pc' = [pc EXCEPT ![s] = AfterInc(period_type)]
            /\ event' = Event(s, "run", {}, "none")
            /\ UNCHANGED usage_err
       ELSE UsageFail(s, inserted)
    /\ UNCHANGED <<users, session_email, is_admin, streak>>

\* inc(): upsert of count = current + 1
IncWrite(s, period_type, db_ok, inserted) ==
    /\ pc[s] = WritePc(period_type)
    /\ IF db_ok
       THEN /\ usage_counters' =
                  [usage_counters EXCEPT ![period_type][Identity(s)] = current[s] + 1]
            /\ current' = [current EXCEPT ![s] = 0]
            /\ pc' = [pc EXCEPT ![s] = AfterInc(period_type)]
            /\ event' = Event(s, "run", {}, "none")
            /\ UNCHANGED usage_err
       ELSE UsageFail(s, inserted)
    /\ UNCHANGED <<users, session_email, is_admin, streak>>

\* What became of usage_inc in the rerun of s that has reached build_pdf.
UsageOf(s) ==
    IF is_admin[s] THEN "admin" ELSE IF usage_err[s] THEN "failed" ELSE "charged"

\* The streak once the rerun of s has delivered its document.
Delivered(s) ==
    LET c == IF UsageOf(s) = "charged" THEN 1 ELSE 0
    IN  IF streak.email = Identity(s)
        THEN [streak EXCEPT !.n = @ + 1, !.charged = @ + c]
        ELSE [email |-> Identity(s), n |-> 1, charged |-> c]

\* Mutant of BuildPdf: a failed render gives the charged usage back.
BuildPdf_rolls_back(s, pdf_ok, inserted) ==
    /\ pc[s] = "pdf"
    /\ EndRun(s)
    /\ event' = Event(s, IF pdf_ok THEN "download" ELSE "stop_pdf",
                      (IF pdf_ok THEN {} ELSE {"build_pdf"}) \cup audit(inserted),
                      UsageOf(s))
    /\ streak' = IF pdf_ok THEN Delivered(s) ELSE streak
    /\ usage_counters' =
          IF pdf_ok \/ is_admin[s] \/ usage_err[s] THEN usage_counters
          ELSE [p \in PeriodTypes |->
                  [usage_counters[p] EXCEPT ![Identity(s)] = IF @ > 0 THEN @ - 1 ELSE 0]]
    /\ UNCHANGED <<users, session_email>>

\* build_pdf inside try/except: on success audit "pdf_ok" and offer the
\* download; on an exception audit "pdf_fail", report and st.stop().
BuildPdf(s, pdf_ok, inserted) ==
    /\ pc[s] = "pdf"
    /\ EndRun(s)
    /\ event' = Event(s, IF pdf_ok THEN "download" ELSE "stop_pdf",
                      (IF pdf_ok THEN {} ELSE {"build_pdf"}) \cup audit(inserted),
                      UsageOf(s))
    /\ streak' = IF pdf_ok THEN Delivered(s) ELSE streak
    /\ UNCHANGED <<users, usage_counters, session_email>>

-----------------------------------------------------------------------------

NextFor(S, cap) ==
    \/ \E s \in S, e \in Emails, db_ok \in BOOLEAN : Login(s, e, db_ok) /\ UNCHANGED calcvars
    \/ \E s \in S : Logout(s) /\ UNCHANGED calcvars
    \/ \E s \in S, key_ok \in BOOLEAN, db_ok \in BOOLEAN :
          Bootstrap(s, key_ok, db_ok) /\ UNCHANGED calcvars
    \/ \E s \in S, target \in Emails, db_ok \in BOOLEAN :
          Approve(s, target, db_ok) /\ UNCHANGED calcvars
    \/ \E s \in S, target \in Emails, db_ok \in BOOLEAN :
          Revoke(s, target, db_ok) /\ UNCHANGED calcvars
    \/ \E s \in S : StartRun(s, cap) /\ UNCHANGED calcvars
    \/ \E s \in S, d_raised \in BOOLEAN, m_raised \in BOOLEAN :
          QuotaCheck(s, d_raised, m_raised) /\ UNCHANGED calcvars
    \/ \E s \in S, call_ok \in BOOLEAN, inserted \in BOOLEAN :
          NarrativeCall(s, call_ok, inserted) /\ UNCHANGED calcvars
    \/ \E s \in S, p \in PeriodTypes, db_ok \in BOOLEAN, inserted \in BOOLEAN :
          IncRead(s, p, db_ok, inserted) /\ UNCHANGED calcvars
    \/ \E s \in S, p \in PeriodTypes, db_ok \in BOOLEAN, inserted \in BOOLEAN :
          IncWrite(s, p, db_ok, inserted) /\ UNCHANGED calcvars
    \/ \E s \in S, pdf_ok \in BOOLEAN, inserted \in BOOLEAN :
          BuildPdf(s, pdf_ok, inserted) /\ UNCHANGED calcvars

Next == NextFor(Sessions, MaxSharedGens)
Spec == Init /\ [][Next]_vars

NextSolo == NextFor(SoloSessions, MaxGens)
SpecSolo == Init /\ [][NextSolo]_vars

TypeOK ==
    /\ pc \in [Sessions -> MidRunPcs \cup {"idle"}]
    /\ event.what \in Outcomes \cup {"none", "run"}
    /\ event.raised \subseteq Raisers

-----------------------------------------------------------------------------
(* Claims about the generate-report rerun *)

IncPcs == {"inc_daily_read", "inc_daily_write", "inc_monthly_read", "inc_monthly_write"}

\* The step is one of session s's generate-report rerun.
StepOf(s) == event'.session = s

\* C1: charge on success only.  A usage counter changes only in the upsert of
\* usage_inc of a rerun of that identity, to current + 1, and a rerun enters
\* usage_inc only by the step in which its own narrative call returned without
\* raising: never before the call, never when the call failed.
C1_ChargeOnSuccessOnly ==
    [][ /\ \A e \in Emails, p \in PeriodTypes :
             usage_counters'[p][e] # usage_counters[p][e]
             => \E s \in Sessions :
                   /\ StepOf(s) /\ Identity(s) = e /\ pc[s] = WritePc(p)
                   /\ usage_counters'[p][e] = current[s] + 1
        /\ \A s \in Sessions :
             (pc'[s] \in IncPcs /\ pc[s] \notin IncPcs)
             => (StepOf(s) /\ pc[s] = "call" /\ "openai" \notin event'.raised)
      ]_vars

\* C1 witness: a rerun of a non-admin went through usage_inc after its call
\* and both counters are charged.
C1_Witness ==
    \E s \in Sessions :
       /\ pc[s] = "pdf" /\ ~is_admin[s] /\ ~usage_err[s]
       /\ usage_get(Identity(s), "daily") >= 1
       /\ usage_get(Identity(s), "monthly") >= 1

C3_ApprovalGate ==
    [][ \A s \in Sessions :
          /\ (pc[s] = "idle" /\ pc'[s] # "idle")
             => /\ pc'[s] = "quota"
                /\ get_user(Identity(s)).exists
                /\ get_user(Identity(s)).approved \/ get_user(Identity(s)).is_admin
          /\ ( /\ StepOf(s) /\ pc[s] = "idle"
               /\ get_user(Identity(s)).exists
               /\ ~get_user(Identity(s)).approved
               /\ ~get_user(Identity(s)).is_admin )
             => (event'.what = "stop_gate" /\ pc'[s] = "idle")
      ]_vars

\* C3 witness: an identity that was charged a report before is stopped at the
\* approved gate.
C3_Witness ==
    /\ event.what = "stop_gate"
    /\ usage_get(Identity(event.session), "daily") >= 1

\* C4: when the narrative call raises, the rerun stops in that step: no
\* counter changes, build_pdf is not reached, nothing is offered.
C4_CallFailureAborts ==
    [][ \A s \in Sessions :
          (StepOf(s) /\ "openai" \in event'.raised)
          => /\ pc[s] = "call" /\ pc'[s] = "idle"
             /\ event'.what = "stop_openai"
             /\ usage_counters' = usage_counters
      ]_vars

\* C4 witness: a rerun ended on a failed narrative call.
C4_Witness == event.what = "stop_openai" /\ "openai" \in event.raised

\* C5: when build_pdf raises, the rerun stops without a download and the
\* counters stay as they were: what the rerun charged is kept.
C5_RenderFailureKeepsCharge ==
    [][ \A s \in Sessions :
          (StepOf(s) /\ "build_pdf" \in event'.raised)
          => /\ pc[s] = "pdf" /\ pc'[s] = "idle"
             /\ event'.what = "stop_pdf"
             /\ usage_counters' = usage_counters
      ]_vars

\* C5 witness: build_pdf failed in a rerun that had charged both counters.
C5_Witness ==
    /\ event.what = "stop_pdf" /\ event.usage = "charged"
    /\ usage_get(Identity(event.session), "daily") >= 1

\* C6: from the narrative call on, a step in which nothing but usage_inc or
\* an audit insert raised never ends the rerun short of build_pdf, and when
\* it is the build_pdf step the download is offered.
C6_SideFailuresDoNotStop ==
    [][ \A s \in Sessions :
          ( /\ StepOf(s) /\ pc[s] \in IncPcs \cup {"call", "pdf"}
            /\ event'.raised # {}
            /\ event'.raised \subseteq {"usage_inc", "audit"} )
          => IF pc[s] = "pdf"
             THEN event'.what = "download"
             ELSE pc'[s] \in IncPcs \cup {"pdf"}
      ]_vars

\* C6 witness: usage_inc raised in the rerun, the audit insert of "pdf_ok"
\* raised too, and the download was offered.
C6_Witness ==
    /\ event.what = "download" /\ event.usage = "failed"
    /\ "audit" \in event.raised

\* C7: usage_inc is a read followed by an upsert of the value read plus one,
\* whatever the table holds by then.
C7_ReadThenUpsert ==
    [][ \A s \in Sessions, p \in PeriodTypes :
          (StepOf(s) /\ pc[s] = WritePc(p) /\ event'.raised = {})
          => usage_counters'[p][Identity(s)] = current[s] + 1
      ]_vars

\* C7 witness: two reruns of one non-admin identity both went through
\* usage_inc without an exception, and each counter went up by 1 only.
C7_Witness ==
    \E s \in Sessions, t \in Sessions :
       /\ s # t /\ Identity(s) = Identity(t)
       /\ pc[s] = "pdf" /\ pc[t] = "pdf"
       /\ ~is_admin[s] /\ ~is_admin[t] /\ ~usage_err[s] /\ ~usage_err[t]
       /\ usage_get(Identity(s), "daily") = 1
       /\ usage_get(Identity(s), "monthly") = 1

-----------------------------------------------------------------------------
(***************************************************************************)
(* Part 2: the 5-year simulation (build_5y_sim and its three estimators).  *)
(*                                                                         *)
(* app.py computes in binary floating point: literals such as 1.04, 0.08   *)
(* and 0.6 and the sums and products of them.  Here every such number is   *)
(* the exact decimal the literal denotes, m / Limb^e with m a natural      *)
(* number held as a sequence of limbs, lowest first, each below Limb; sums *)
(* and products are exact and only round() rounds, to the nearest integer  *)
(* with ties going to the even one, as Python's round does.  On every      *)
(* input of SimInputs the rows are those CPython returns for the float     *)
(* code.                                                                   *)
(***************************************************************************)

Limb == 10000

Rest(a) == IF a = <<>> THEN <<>> ELSE Tail(a)
Low(a) == IF a = <<>> THEN 0 ELSE Head(a)

\* a without its leading (highest) zero limbs; zero is <<>>.
RECURSIVE Norm(_)
Norm(a) ==
    IF a = <<>> THEN a
    ELSE IF a[Len(a)] = 0 THEN Norm(SubSeq(a, 1, Len(a) - 1)) ELSE a

RECURSIVE FromInt(_)
FromInt(n) == IF n = 0 THEN <<>> ELSE <<n % Limb>> \o FromInt(n \div Limb)

RECURSIVE ToInt(_)
ToInt(a) == IF a = <<>> THEN 0 ELSE Head(a) + Limb * ToInt(Tail(a))

\* a + b + c, c a carry below Limb.
RECURSIVE AddC(_, _, _)
AddC(a, b, c) ==
    IF a = <<>> /\ b = <<>>
    THEN IF c = 0 THEN <<>> ELSE <<c>>
    ELSE LET t == Low(a) + Low(b) + c
         IN  <<t % Limb>> \o AddC(Rest(a), Rest(b), t \div Limb)

Add(a, b) == AddC(a, b, 0)

\* a - b - c for a >= b + c, c a borrow of 0 or 1.
RECURSIVE SubC(_, _, _)
SubC(a, b, c) ==
    IF a = <<>> THEN <<>>
    ELSE LET t == Head(a) - Low(b) - c
         IN  IF t < 0
             THEN <<t + Limb>> \o SubC(Tail(a), Rest(b), 1)
             ELSE <<t>> \o SubC(Tail(a), Rest(b), 0)

Sub(a, b) == Norm(SubC(a, b, 0))

\* a * n + c for a limb n and a carry c below Limb.
RECURSIVE MulLimb(_, _, _)
MulLimb(a, n, c) ==
    IF a = <<>>
    THEN IF c = 0 THEN <<>> ELSE <<c>>
    ELSE LET t == Head(a) * n + c
         IN  <<t % Limb>> \o MulLimb(Tail(a), n, t \div Limb)

RECURSIVE MulAll(_, _)
MulAll(a, b) ==
    IF b = <<>> THEN <<>>
    ELSE Add(MulLimb(a, Head(b), 0), <<0>> \o MulAll(a, Tail(b)))

Mul(a, b) == Norm(MulAll(a, b))

\* -1, 0 or 1 as a is below, equal to or above b (both without leading zeros).
RECURSIVE CmpFrom(_, _, _)
CmpFrom(a, b, i) ==
    IF i = 0 THEN 0
    ELSE IF a[i] < b[i] THEN -1
    ELSE IF a[i] > b[i] THEN 1
    ELSE CmpFrom(a, b, i - 1)

Cmp(a, b) ==
    IF Len(a) < Len(b) THEN -1
    ELSE IF Len(a) > Len(b) THEN 1
    ELSE CmpFrom(a, b, Len(a))

\* a * Limb^k.
Shift(a, k) == IF a = <<>> THEN a ELSE [i \in 1..k |-> 0] \o a

\* The decimal n / Limb^e.
Dec(n, e) == [m |-> FromInt(n), e |-> e]
Zero == Dec(0, 0)

MaxOf(x, y) == IF x >= y THEN x ELSE y
Aligned(x, e) == Shift(x.m, e - x.e)

DecMul(x, y) == [m |-> Mul(x.m, y.m), e |-> x.e + y.e]
DecAdd(x, y) ==
    LET e == MaxOf(x.e, y.e) IN [m |-> Add(Aligned(x, e), Aligned(y, e)), e |-> e]
DecCmp(x, y) ==
    LET e == MaxOf(x.e, y.e) IN Cmp(Aligned(x, e), Aligned(y, e))
\* x - y for x >= y.
DecSub(x, y) ==
    LET e == MaxOf(x.e, y.e) IN [m |-> Sub(Aligned(x, e), Aligned(y, e)), e |-> e]
DecMin(x, y) == IF DecCmp(x, y) <= 0 THEN x ELSE y

RECURSIVE DecPow(_, _)
DecPow(x, i) == IF i = 0 THEN Dec(1, 0) ELSE DecMul(x, DecPow(x, i - 1))

\* round(x) of a non-negative x: the nearest integer, a tie to the even one.
round(x) ==
    LET whole == ToInt(SubSeq(x.m, x.e + 1, Len(x.m)))
        frac  == Norm(SubSeq(x.m, 1, IF x.e < Len(x.m) THEN x.e ELSE Len(x.m)))
        half  == IF x.e = 0 THEN <<>> ELSE Shift(<<Limb \div 2>>, x.e - 1)
        c     == IF x.e = 0 THEN -1 ELSE Cmp(frac, half)
    IN  IF c < 0 THEN whole
        ELSE IF c > 0 THEN whole + 1
        ELSE IF whole % 2 = 0 THEN whole ELSE whole + 1

\* round(x - y): Python rounds a negative number as the mirror image of the
\* positive one.
round_diff(x, y) ==
    IF DecCmp(x, y) >= 0 THEN round(DecSub(x, y)) ELSE 0 - round(DecSub(y, x))

\* round(profit_rate, 2), in hundredths of a percent, of a rate held in
\* thousandths: the nearest hundredth.  A rate that ends in 5 thousandths is
\* not the tie it looks like (its float lies on one side), and Rates holds none.
round2(k) == IF k % 10 < 5 THEN k \div 10 ELSE k \div 10 + 1

-----------------------------------------------------------------------------
(* The estimators and build_5y_sim *)

\* estimate_personal_tax: profit * min(0.35, 0.08 + (profit / 500_000_000) * 0.12).
estimate_personal_tax(profit) ==
    IF DecCmp(profit, Zero) <= 0 THEN Zero
    ELSE LET rate == DecMin(Dec(3500, 1),
                            DecAdd(Dec(800, 1),
                                   DecMul(DecMul(profit, Dec(2000, 3)), Dec(1200, 1))))
         IN  DecMul(profit, rate)

\* Mutant of estimate_corp_tax: the higher rate at every profit.
estimate_corp_tax_one_rate(profit) ==
    IF DecCmp(profit, Zero) <= 0 THEN Zero ELSE DecMul(profit, Dec(1900, 1))

\* estimate_corp_tax: 0.09 of a profit up to 200_000_000, 0.19 of a higher one.
estimate_corp_tax(profit) ==
    IF DecCmp(profit, Zero) <= 0 THEN Zero
    ELSE LET rate == IF DecCmp(profit, Dec(200000000, 0)) <= 0
                     THEN Dec(900, 1) ELSE Dec(1900, 1)
         IN  DecMul(profit, rate)

\* estimate_health: 0.07 of the profit of a regional subscriber, else 0.04.
estimate_health(profit, is_regional) ==
    IF DecCmp(profit, Zero) <= 0 THEN Zero
    ELSE LET base == IF is_regional THEN Dec(700, 1) ELSE Dec(400, 1)
         IN  DecMul(profit, base)

\* Mutant of growth: no growth.
growth_none(i) == Dec(1, 0)

\* (1.04) ** i
growth(i) == DecPow(Dec(10400, 1), i)

\* s and p of the loop's pass i.
sales_of(sales, i) == DecMul(Dec(sales, 0), growth(i))
profit_of(sales, profit_rate, i) ==
    DecMul(sales_of(sales, i), Dec(profit_rate * 1000, 2))

\* One pass of the loop: the row appended for range(5)'s i.  `year` counts
\* from base_year, `rate` is in hundredths of a percent.
sim_row(sales, profit_rate, is_regional, i) ==
    LET s   == sales_of(sales, i)
        p   == profit_of(sales, profit_rate, i)
        t_p == estimate_personal_tax(p)
        t_c == estimate_corp_tax(p)
        h   == estimate_health(p, is_regional)
    IN  [year         |-> i,
         sales        |-> round(s),
         rate         |-> round2(profit_rate),
         profit       |-> round(p),
         personal_tax |-> round(t_p),
         corp_tax     |-> round(t_c),
         health       |-> round(h),
         delta        |-> round_diff(DecAdd(t_p, h),
                                     DecAdd(t_c, DecMul(h, Dec(6000, 1))))]

build_5y_sim(sales, profit_rate, is_regional) ==
    [n \in 1..5 |-> sim_row(sales, profit_rate, is_regional, n - 1)]

\* The inputs explored.  sales is the whole number the number_input returns:
\* every small one, and the widget's steps of 10,000,000.  income_rate is in
\* thousandths of a percent, up to the widget's max_value of 100.0.
MaxSmallSales == 30
MaxSalesSteps == 100
MaxRateSteps == 8
SalesStep == 10000000
RateMax == 100000

SalesValues == (0..MaxSmallSales) \cup {j * SalesStep : j \in 1..MaxSalesSteps}
Rates ==
    {k \in {j * 12500 : j \in 0..MaxRateSteps} \cup {j * 12346 : j \in 0..MaxRateSteps} :
        k <= RateMax}
SimInputs ==
    [sales : SalesValues, profit_rate : Rates, is_regional : BOOLEAN]

\* The script is about to compute the preview from what the widgets hold.
InitSim ==
    /\ InitApp
    /\ NoLookup
    /\ sim_args \in SimInputs
    /\ sim_df = <<>>

\* sim_df = build_5y_sim(float(sales), float(income_rate), bool(is_regional))
Preview ==
    /\ sim_df = <<>>
    /\ sim_df' = build_5y_sim(sim_args.sales, sim_args.profit_rate,
                              sim_args.is_regional)
    /\ UNCHANGED <<appvars, sim_args, excel, ir>>

NextSim == Preview
SpecSim == InitSim /\ [][NextSim]_vars

Previewed == sim_df # <<>>

-----------------------------------------------------------------------------
(***************************************************************************)
(* Part 3: the income-rate lookup (compute_income_rate_from_excel).        *)
(*                                                                         *)
(* A text is a sequence of one-character strings.  A cell of the sheet is  *)
(* a text or is empty (pandas reads an empty cell as NaN); the sheets      *)
(* explored hold their codes as text, so that the columns read are object  *)
(* columns and astype(str) and str() leave a text as it is and turn NaN    *)
(* into "nan".  The texts are over digits, the blank and the letters A, B  *)
(* and x, of which float() accepts exactly the digit strings, blanks       *)
(* around them allowed.                                                    *)
(***************************************************************************)

Text(s) == [isnan |-> FALSE, text |-> s]
NaN == [isnan |-> TRUE, text |-> <<>>]

\* str(cell) and the elements of df[col].astype(str)
str(cell) == IF cell.isnan THEN <<"n", "a", "n">> ELSE cell.text

RECURSIVE lstrip(_)
lstrip(s) == IF s # <<>> /\ Head(s) = " " THEN lstrip(Tail(s)) ELSE s

RECURSIVE rstrip(_)
rstrip(s) ==
    IF s # <<>> /\ s[Len(s)] = " " THEN rstrip(SubSeq(s, 1, Len(s) - 1)) ELSE s

\* s.strip()
strip(s) == rstrip(lstrip(s))

Digits == <<"0", "1", "2", "3", "4", "5", "6", "7", "8", "9">>
DigitOf(c) == (CHOOSE i \in 1..Len(Digits) : Digits[i] = c) - 1
IsDigit(c) == \E i \in 1..Len(Digits) : Digits[i] = c

RECURSIVE Number(_)
Number(s) ==
    IF s = <<>> THEN 0 ELSE 10 * Number(SubSeq(s, 1, Len(s) - 1)) + DigitOf(s[Len(s)])

\* A float: a number or nan.
Float(v) == [isnan |-> FALSE, v |-> v]
nan == [isnan |-> TRUE, v |-> 0]

\* float(cell): the cell's number, or ValueError.
float(cell) ==
    LET t == strip(cell.text)
    IN  IF cell.isnan THEN [raised |-> FALSE, value |-> nan]
        ELSE IF t # <<>> /\ \A i \in 1..Len(t) : IsDigit(t[i])
        THEN [raised |-> FALSE, value |-> Float(Number(t))]
        ELSE [raised |-> TRUE, value |-> nan]

\* 100.0 - qv
income_rate_of(qv) == IF qv.isnan THEN nan ELSE Float(100 - qv.v)

\* The notes of an IncomeRateResult, by the return statement that wrote them.
Notes == {"read_failed", "shape", "f_not_found", "k_not_found",
          "q_not_numeric", "OK"}

\* C, F, K, Q -> 0-based index
colC == 2
colF == 5
colK == 10
colQ == 16

\* df[df[col].astype(str).str.strip() == code]
matching(df, col, code) == SelectSeq(df, LAMBDA r : strip(str(r[col])) = code)

\* Mutant of iloc0: the last row.
iloc_last(hit) == hit[Len(hit)]

\* hit.iloc[0]
iloc0(hit) == hit[1]

\* Mutant of biz_code_of: no strip().
biz_code_unstripped(hit) == str(iloc0(hit)[colC])

\* str(hit.iloc[0][colC]).strip()
biz_code_of(hit) == strip(str(iloc0(hit)[colC]))

compute_income_rate_from_excel(uploaded_file, industry_code) ==
    LET code == strip(industry_code)
        df   == uploaded_file.rows
        hit  == matching(df, colF, code)
        biz_code == biz_code_of(hit)
        hit2 == matching(df, colK, biz_code)
        qv   == float(iloc0(hit2)[colQ])
    IN  IF ~uploaded_file.readable
        THEN IncomeRateResult(code, None, None, None, "read_failed")
        ELSE IF uploaded_file.ncols <= colQ
        THEN IncomeRateResult(code, None, None, None, "shape")
        ELSE IF hit = <<>>
        THEN IncomeRateResult(code, None, None, None, "f_not_found")
        ELSE IF hit2 = <<>>
        THEN IncomeRateResult(code, Some(biz_code), None, None, "k_not_found")
        ELSE IF qv.raised
        THEN IncomeRateResult(code, Some(biz_code), None, None, "q_not_numeric")
        ELSE IncomeRateResult(code, Some(biz_code), Some(qv.value),
                              Some(income_rate_of(qv.value)), "OK")

\* The sheets explored: up to MaxRows rows, of which the four columns read
\* are kept.  Column F holds " 1" beside "1" and an empty cell, C and K hold
\* the codes A and B with and without blanks, Q a number, a word or nothing.
MaxRows == 2

FCells == {Text(<<"1">>), Text(<<" ", "1">>), NaN}
CCells == {Text(<<"A">>), Text(<<"B", " ">>)}
KCells == {Text(<<" ", "A">>), Text(<<"B">>)}
QCells == {Text(<<"7">>), Text(<<"x">>), NaN}

RowOf(c, f, k, q) == (colC :> c) @@ (colF :> f) @@ (colK :> k) @@ (colQ :> q)
Rows == {RowOf(c, f, k, q) : c \in CCells, f \in FCells, k \in KCells, q \in QCells}

\* A sheet of colQ columns lacks column Q, the next wider one has it.
Widths == {colQ, colQ + 1}
Sheets ==
    [readable : {TRUE}, ncols : Widths,
     rows : UNION {[1..n -> Rows] : n \in 0..MaxRows}]

IndustryCodes == {<<"1", " ">>, <<"3">>}

LookupInputs ==
    [uploaded_file : Sheets \cup {Unreadable}, industry_code : IndustryCodes]

\* A file was uploaded and the script is about to look the code up.
InitLookup ==
    /\ InitApp
    /\ NoPreview
    /\ excel \in LookupInputs
    /\ ir = NoResult

\* ir = compute_income_rate_from_excel(uploaded_file, industry_code)
Lookup ==
    /\ ir = NoResult
    /\ ir' = compute_income_rate_from_excel(excel.uploaded_file,
                                            excel.industry_code)
    /\ UNCHANGED <<appvars, sim_args, sim_df, excel>>

NextLookup == Lookup
SpecLookup == InitLookup /\ [][NextLookup]_vars

LookedUp == ir # NoResult

-----------------------------------------------------------------------------
(* Claims about the simulation *)

SimRows == 1..Len(sim_df)

\* C8 as stated: for every rate in [0,100] and every sales >= 0 the table has
\* exactly 5 rows, the sales of each row are above those of the row before,
\* and every row shows the same rate, round(profit_rate, 2).
C8_Original ==
    Previewed =>
        /\ Len(sim_df) = 5
        /\ \A i \in 1..4 : sim_df[i].sales < sim_df[i + 1].sales
        /\ \A i \in SimRows : sim_df[i].rate = round2(sim_args.profit_rate)

\* C8: for every rate in [0,100] and every sales >= 0 the table has exactly 5
\* rows, the sales of a row are never below those of the row before and are
\* above them when sales >= 25 (a growth of 4% is then at least 1), and every
\* row shows the same rate, the hundredth of a percent nearest to profit_rate.
C8_SalesGrowRateHeld ==
    Previewed =>
        /\ Len(sim_df) = 5
        /\ \A i \in 1..4 : sim_df[i].sales <= sim_df[i + 1].sales
        /\ sim_args.sales >= 100 \div 4 =>
              \A i \in 1..4 : sim_df[i].sales < sim_df[i + 1].sales
        /\ \A i \in SimRows :
              /\ sim_df[i].rate = sim_df[1].rate
              /\ 10 * sim_df[i].rate - sim_args.profit_rate \in -4..4

\* A table of growing sales for a rate that is no whole hundredth.
C8_Witness ==
    /\ Previewed
    /\ sim_args.sales >= 100 \div 4
    /\ sim_args.profit_rate % 10 # 0
    /\ sim_df[1].sales = sim_args.sales
    /\ sim_df[5].sales > sim_df[4].sales

\* The currency fields of a row other than delta.
Amounts(row) ==
    {row.sales, row.profit, row.personal_tax, row.corp_tax, row.health}

\* C9 as stated: in every row whose profit is non-negative, sales, profit,
\* personal tax, corporate tax, health insurance and delta are non-negative.
C9_Original ==
    Previewed =>
        \A i \in SimRows :
            sim_df[i].profit >= 0 =>
                \A x \in Amounts(sim_df[i]) \cup {sim_df[i].delta} : x >= 0

\* C9: in every row whose profit is non-negative, sales, profit, personal tax,
\* corporate tax and health insurance are non-negative, and so is delta when
\* the profit of the row, before rounding, is at most 200,000,000 (the lower
\* corporate rate applies), for regional and for employed subscribers.
C9_AmountsNonNegative ==
    Previewed =>
        \A i \in SimRows :
            sim_df[i].profit >= 0 =>
                /\ \A x \in Amounts(sim_df[i]) : x >= 0
                /\ DecCmp(profit_of(sim_args.sales, sim_args.profit_rate, i - 1),
                          Dec(200000000, 0)) <= 0
                      => sim_df[i].delta >= 0

\* An employed subscriber's table with a positive profit under the lower
\* corporate rate and one under the higher rate.
C9_Witness ==
    /\ Previewed
    /\ ~sim_args.is_regional
    /\ sim_df[1].profit > 0
    /\ sim_df[1].profit < 200000000
    /\ sim_df[1].delta > 0
    /\ sim_df[5].profit > 200000000

-----------------------------------------------------------------------------
(* Claims about the lookup *)

Sheet == excel.uploaded_file
SheetRows == 1..Len(Sheet.rows)
WideSheet == Sheet.readable /\ Sheet.ncols >= colQ + 1

\* The text of row i's cell in column col, trimmed, and the trimmed code.
Trimmed(i, col) == strip(str(Sheet.rows[i][col]))
Target == strip(excel.industry_code)

Found(col, code) == \E i \in SheetRows : Trimmed(i, col) = code
\* The first row, in the sheet's order, whose column col is the code.
FirstRow(col, code) ==
    CHOOSE i \in SheetRows :
        /\ Trimmed(i, col) = code
        /\ \A j \in 1..(i - 1) : Trimmed(j, col) # code

Intermediate == Trimmed(FirstRow(colF, Target), colC)
Factor == float(Sheet.rows[FirstRow(colK, Intermediate)][colQ])

\* C10 as stated: on a sheet of at least 17 columns, the code is not found in
\* column F (no business code, no rate), or the business code is column C of
\* the first row found and is not found in column K (business code, no rate),
\* or the rate is 100 - Q of the first row found in column K and the notes
\* are OK.
C10_Original ==
    (LookedUp /\ WideSheet) =>
        IF ~Found(colF, Target)
        THEN ir.notes = "f_not_found" /\ ir.biz_code = None /\ ir.income_rate = None
        ELSE /\ ir.biz_code = Some(Intermediate)
             /\ IF ~Found(colK, Intermediate)
                THEN ir.income_rate = None
                ELSE /\ ir.notes = "OK"
                     /\ ir.income_rate = Some(income_rate_of(Factor.value))

\* C10: on a sheet of at least 17 columns, the code is not found in column F
\* (no business code, no rate), or the business code is column C of the first
\* row found and is not found in column K (business code, no rate), or Q of
\* the first row found in column K is no number (business code, no rate, the
\* notes say so), or the rate is 100 - Q and the notes are OK.
C10_TwoStepFirstMatch ==
    (LookedUp /\ WideSheet) =>
        /\ ir.industry_code = Target
        /\ IF ~Found(colF, Target)
           THEN ir.notes = "f_not_found" /\ ir.biz_code = None /\ ir.income_rate = None
           ELSE /\ ir.biz_code = Some(Intermediate)
                /\ IF ~Found(colK, Intermediate)
                   THEN ir.notes = "k_not_found" /\ ir.income_rate = None
                   ELSE IF Factor.raised
                   THEN ir.notes = "q_not_numeric" /\ ir.income_rate = None
                   ELSE /\ ir.notes = "OK"
                        /\ ir.q_value = Some(Factor.value)
                        /\ ir.income_rate = Some(income_rate_of(Factor.value))

\* Both rows of a sheet hold the code in column F, with different business
\* codes, and the lookup took the first row's and came to a rate of 93.
C10_Witness ==
    /\ LookedUp /\ WideSheet
    /\ excel.industry_code # Target
    /\ Len(Sheet.rows) = 2
    /\ Trimmed(1, colF) = Target /\ Trimmed(2, colF) = Target
    /\ Trimmed(1, colC) # Trimmed(2, colC)
    /\ Trimmed(2, colK) = Intermediate
    /\ ir.notes = "OK"
    /\ ir.income_rate = Some(Float(93))

-----------------------------------------------------------------------------
(* Claims about logins, admins and the quota check *)

\* C11 as stated: a login by an e-mail that has a row in users leaves the
\* row's approved and is_admin as they were.
C11_LoginKeepsFlags ==
    [][ \A s \in Sessions, e \in Emails, db_ok \in BOOLEAN :
          (Login(s, e, db_ok) /\ get_user(e).exists)
          => /\ users'[e].approved = users[e].approved
             /\ users'[e].is_admin = users[e].is_admin
      ]_vars

\* C12: the quota never applies to an admin.  A generate-report rerun takes
\* is_admin from the row it loads; a rerun that loaded an admin's row goes
\* from the quota check on to the narrative call whatever the counters hold,
\* never enters usage_inc, changes no counter, and delivers its document
\* uncharged.
C12_AdminExempt ==
    [][ \A s \in Sessions :
          StepOf(s) =>
            /\ (pc[s] = "idle" /\ pc'[s] = "quota")
                  => is_admin'[s] = get_user(Identity(s)).is_admin
            /\ (MidRun(s) /\ is_admin[s]) =>
                  /\ pc[s] = "quota" => pc'[s] = "call"
                  /\ event'.what # "stop_quota"
                  /\ pc'[s] \notin IncPcs
                  /\ usage_counters' = usage_counters
                  /\ event'.what = "download" => event'.usage = "admin"
      ]_vars

\* An admin whose daily counter stands at the limit got a document, and the
\* counter is where it stood.
C12_Witness ==
    /\ event.what = "download" /\ event.usage = "admin"
    /\ get_user(Identity(event.session)).is_admin
    /\ usage_get(Identity(event.session), "daily") >= DAILY_LIMIT
    /\ streak.charged = usage_get(Identity(event.session), "daily")

\* The limit usage_can holds the count of period p against.
LimitOf(p) == IF p = "daily" THEN DAILY_LIMIT ELSE MONTHLY_LIMIT

\* C13: the quota check fails open.  In the quota-check step of a
\* non-admin's rerun a counter whose read raised counts as 0: the rerun goes
\* on to the narrative call exactly when every counter that could be read is
\* under its limit, whatever is stored for the one that could not, and it is
\* stopped only by a counter that was read and is at or above its limit.
C13_QuotaFailsOpen ==
    [][ \A s \in Sessions :
          (StepOf(s) /\ pc[s] = "quota" /\ ~is_admin[s]) =>
            LET readable == {p \in PeriodTypes :
                               ("usage_get_" \o p) \notin event'.raised}
                under == \A p \in readable : usage_get(Identity(s), p) < LimitOf(p)
            IN  /\ under => (pc'[s] = "call" /\ event'.what = "run")
                /\ ~under => (pc'[s] = "idle" /\ event'.what = "stop_quota")
                /\ usage_counters' = usage_counters
      ]_vars

\* A non-admin whose stored daily count is at the limit passed the quota
\* check, because the read of the daily counter raised.
C13_Witness ==
    \E s \in Sessions :
        /\ event.session = s /\ event.what = "run"
        /\ "usage_get_daily" \in event.raised
        /\ "usage_get_monthly" \notin event.raised
        /\ pc[s] = "call" /\ ~is_admin[s]
        /\ usage_get(Identity(s), "daily") >= DAILY_LIMIT
        /\ usage_get(Identity(s), "monthly") < MONTHLY_LIMIT

====
